---- MODULE Spec2Model ----
(***************************************************************************)
(* Model of src/calvaDebug.ts: the Calva debug adapter session              *)
(* (CalvaDebugSession), the adapter descriptor factory, and the router      *)
(* handleDebugResponse that records nREPL debug notifications.              *)
(*                                                                          *)
(* Every handler of the source is one action.  The variable `step` holds    *)
(* what the most recently executed operation did: which operation it was,   *)
(* on which session, the protocol messages it sent to the front-end (in     *)
(* order), the commands it sent to the clj session (in order), whether it   *)
(* showed a notice, and whether it ended by throwing.                       *)
(***************************************************************************)
EXTENDS Integers, Sequences, FiniteSets, TLC

\* ------------------------------------------------------------------ bounds
MaxKeys == 2          \* distinct correlation keys the REPL may hand out
MaxSessions == 3      \* adapter sessions: the stdio session and the accepted ones
MaxPorts == 2         \* ports the OS may assign to the listener
MaxPending == 2       \* startDebugging requests not yet turned into a session
MaxCalls == 3         \* calls of each factory method that are counted

\* --------------------------------------------------------------- constants
THREAD_ID == 1
StdioSession == 1

\* ------------------------------------------------------------ option values
\* A JavaScript value that may be undefined: <<>> is undefined, <<v>> is v.
Undefined == << >>
Some(v) == << v >>
IsDefined(o) == o # << >>
Val(o) == o[1]

\* ------------------------------------------------------------------ inputs
Keys == 1..MaxKeys
\* File paths as the debugger reports them: sequences of path segments.
Files == { << "a", "b.clj" >>, << "src", "core.cljs" >> }
Notifications == [key : Keys, file : Files]
Sessions == 1..MaxSessions
Ports == 1..MaxPorts
InitializeArgs == [linesStartAt1 : BOOLEAN, columnsStartAt1 : BOOLEAN]

CALVA_DEBUG_CONFIGURATION == [type |-> "clojure", name |-> "Calva Debug", request |-> "attach"]

VARIABLES
    cljSession,               \* util.getSession('clj') is truthy
    debugResponse,            \* state 'debug-response': Undefined or Some(notification)
    activeDebugSession,       \* debug.activeDebugSession is truthy
    startRequests,            \* debug.startDebugging calls not yet served, oldest first
    clientPathsAreURIs,       \* the front-end addresses sources by URI, not by native path
    started,                  \* the CalvaDebugSession objects that are running
    debuggerLinesStartAt1,    \* per session, set by setDebuggerLinesStartAt1
    debuggerColumnsStartAt1,  \* per session, set by setDebuggerColumnsStartAt1
    terminated,               \* history: the session has emitted a TerminatedEvent
    disconnected,             \* history: the session has processed a disconnect
    steppedFrom,              \* history: Some(slot at the last next) until the next record
    server,                   \* factory field: Undefined or Some([port, listening])
    listenersCreated,         \* history: Net.createServer(...).listen(0) calls
    closings,                 \* history: times a listening server was closed
    issued,                   \* history: the ports named by the descriptors returned
    describeCalls,            \* history: createDebugAdapterDescriptor calls, capped
    disposeCalls,             \* history: dispose calls, capped
    step                      \* what the last operation did

sessionVars == << started, debuggerLinesStartAt1, debuggerColumnsStartAt1, terminated, disconnected >>
factoryVars == << server, listenersCreated, closings, issued, describeCalls, disposeCalls >>
routerVars == << debugResponse, activeDebugSession, startRequests >>
vars == << cljSession, clientPathsAreURIs, routerVars, sessionVars, steppedFrom, factoryVars, step >>

\* ---------------------------------------------------------------- messages
NoBody == [empty |-> TRUE]
Response(command, body) == [type |-> "response", command |-> command, success |-> TRUE, body |-> body]
TerminatedEvent == [type |-> "event", event |-> "terminated", body |-> NoBody]
StoppedEvent(reason, threadId) ==
    [type |-> "event", event |-> "stopped", body |-> [reason |-> reason, threadId |-> threadId]]
Thread(id, name) == [id |-> id, name |-> name]
DebugInput(text, key) == [text |-> text, key |-> key]

\* The record of one executed operation.
Step(kind, s, out, sent, notice, fault, result) ==
    [kind |-> kind, session |-> s, out |-> out, sent |-> sent,
     notice |-> notice, fault |-> fault, result |-> result]
NoResult == [none |-> TRUE]
\* An operation of no session that sends nothing (session 0 is no session).
Idle(kind, result) == Step(kind, 0, << >>, << >>, FALSE, FALSE, result)

\* ------------------------------------------------------------ path mapping
\* path.basename: the last segment of a path.
basename(p) == p[Len(p)]

\* DebugSession.path2uri: a native path as a file URI.
path2uri(p) == << "file:" >> \o p

\* DebugSession.convertDebuggerPathToClient: this adapter never calls
\* setDebuggerPathFormat, so its own paths are native; they are turned into
\* URIs exactly when the front-end's convention differs.
debuggerPathsAreURIs == FALSE

\* A faulty variant: the path is handed to the front-end unconverted.
convertNothing(p) == p

convertDebuggerPathToClient(p) ==
    IF debuggerPathsAreURIs # clientPathsAreURIs THEN path2uri(p) ELSE p

Source(name, path, origin) == [name |-> name, path |-> path, origin |-> origin]
StackFrame(i, nm, src, ln, col) == [id |-> i, name |-> nm, source |-> src, line |-> ln, column |-> col]

\* --------------------------------------------------- CalvaDebugSession
\* What each handler sends to the front-end when it runs to its end.
InitializeCapabilities == [supportsBreakpointLocationsRequest |-> TRUE]
\* A faulty variant: a successful initialize also announces itself with an
\* Initialized event.
InitializeOutputAnnouncing(clj) ==
    IF clj THEN << Response("initialize", InitializeCapabilities),
                   [type |-> "event", event |-> "initialized", body |-> NoBody] >>
    ELSE << TerminatedEvent >>

InitializeOutput(clj) ==
    IF clj THEN << Response("initialize", InitializeCapabilities) >>
    ELSE << TerminatedEvent >>

\* A faulty variant: the Stopped event is emitted before the response.
AttachOutputEventFirst == << StoppedEvent("breakpoint", THREAD_ID), Response("attach", NoBody) >>

AttachOutput == << Response("attach", NoBody), StoppedEvent("breakpoint", THREAD_ID) >>

\* A faulty variant: no thread is reported.
ThreadsOutputEmpty == << Response("threads", [threads |-> << >>]) >>

ThreadsOutput == << Response("threads", [threads |-> << Thread(THREAD_ID, "thread 1") >>]) >>

\* stackTraceRequest's body for a recorded notification n.
StackFrames(n) ==
    << StackFrame(0, "test",
                  Source(basename(n.file), convertDebuggerPathToClient(n.file), "test-debug-data"),
                  18, 0) >>
StackTraceOutput(n) ==
    << Response("stackTrace", [stackFrames |-> StackFrames(n), totalFrames |-> Len(StackFrames(n))]) >>

\* `debugResponse.key` / `debugResponse.file` throw a TypeError when the slot
\* is undefined; the handler then ends without sending anything.
ReadsUndefined(slot) == ~IsDefined(slot)

\* A faulty variant: the command is sent to the clj session twice.
DebugCommandsTwice(text, clj, slot) ==
    IF clj THEN << DebugInput(text, Some(Val(slot).key)), DebugInput(text, Some(Val(slot).key)) >>
    ELSE << >>

\* The commands nextRequest / disconnectRequest send to the clj session.
DebugCommands(text, clj, slot) ==
    IF clj THEN << DebugInput(text, Some(Val(slot).key)) >> ELSE << >>

initializeRequest(s, args) ==
    /\ s \in started
    /\ IF ~cljSession
         THEN /\ step' = Step("initialize", s, InitializeOutput(FALSE), << >>, TRUE, FALSE, NoResult)
              /\ terminated' = [terminated EXCEPT ![s] = TRUE]
              /\ UNCHANGED << debuggerLinesStartAt1, debuggerColumnsStartAt1 >>
         ELSE /\ debuggerLinesStartAt1' = [debuggerLinesStartAt1 EXCEPT ![s] = args.linesStartAt1]
              /\ debuggerColumnsStartAt1' = [debuggerColumnsStartAt1 EXCEPT ![s] = args.columnsStartAt1]
              /\ step' = Step("initialize", s, InitializeOutput(TRUE), << >>, FALSE, FALSE, NoResult)
              /\ UNCHANGED terminated
    /\ UNCHANGED << cljSession, clientPathsAreURIs, routerVars, started, disconnected,
                    steppedFrom, factoryVars >>

attachRequest(s) ==
    /\ s \in started
    /\ step' = Step("attach", s, AttachOutput, << >>, FALSE, FALSE, NoResult)
    /\ UNCHANGED << cljSession, clientPathsAreURIs, routerVars, sessionVars, steppedFrom, factoryVars >>

\* A faulty variant: disconnecting one session also closes the listener.
disconnectRequestClosingListener(s) ==
    /\ s \in started
    /\ IF cljSession /\ ReadsUndefined(debugResponse)
         THEN /\ step' = Step("disconnect", s, << >>, << >>, FALSE, TRUE, NoResult)
              /\ UNCHANGED << disconnected, server, closings >>
         ELSE /\ step' = Step("disconnect", s, << Response("disconnect", NoBody) >>,
                              DebugCommands(":quit", cljSession, debugResponse), FALSE, FALSE, NoResult)
              /\ disconnected' = [disconnected EXCEPT ![s] = TRUE]
              /\ IF IsDefined(server)
                   THEN /\ server' = Some([Val(server) EXCEPT !.listening = FALSE])
                        /\ closings' = IF Val(server).listening THEN closings + 1 ELSE closings
                   ELSE UNCHANGED << server, closings >>
    /\ UNCHANGED << cljSession, clientPathsAreURIs, routerVars, started, debuggerLinesStartAt1,
                    debuggerColumnsStartAt1, terminated, steppedFrom, listenersCreated, issued,
                    describeCalls, disposeCalls >>

disconnectRequest(s) ==
    /\ s \in started
    /\ IF cljSession /\ ReadsUndefined(debugResponse)
         THEN /\ step' = Step("disconnect", s, << >>, << >>, FALSE, TRUE, NoResult)
              /\ UNCHANGED disconnected
         ELSE /\ step' = Step("disconnect", s, << Response("disconnect", NoBody) >>,
                              DebugCommands(":quit", cljSession, debugResponse), FALSE, FALSE, NoResult)
              /\ disconnected' = [disconnected EXCEPT ![s] = TRUE]
    /\ UNCHANGED << cljSession, clientPathsAreURIs, routerVars, started, debuggerLinesStartAt1,
                    debuggerColumnsStartAt1, terminated, steppedFrom, factoryVars >>

\* A faulty variant: stepping forgets the recorded notification.
nextRequestClearingSlot(s) ==
    /\ s \in started
    /\ IF cljSession /\ ReadsUndefined(debugResponse)
         THEN step' = Step("next", s, << >>, << >>, FALSE, TRUE, NoResult)
         ELSE step' = Step("next", s, << Response("next", NoBody) >>,
                           DebugCommands(":next", cljSession, debugResponse), FALSE, FALSE, NoResult)
    /\ steppedFrom' = Some(debugResponse)
    /\ debugResponse' = Undefined
    /\ UNCHANGED << cljSession, clientPathsAreURIs, activeDebugSession, startRequests,
                    sessionVars, factoryVars >>

nextRequest(s) ==
    /\ s \in started
    /\ IF cljSession /\ ReadsUndefined(debugResponse)
         THEN step' = Step("next", s, << >>, << >>, FALSE, TRUE, NoResult)
         ELSE step' = Step("next", s, << Response("next", NoBody) >>,
                           DebugCommands(":next", cljSession, debugResponse), FALSE, FALSE, NoResult)
    /\ steppedFrom' = Some(debugResponse)
    /\ UNCHANGED << cljSession, clientPathsAreURIs, routerVars, sessionVars, factoryVars >>

stackTraceRequest(s) ==
    /\ s \in started
    /\ IF ReadsUndefined(debugResponse)
         THEN step' = Step("stackTrace", s, << >>, << >>, FALSE, TRUE, NoResult)
         ELSE step' = Step("stackTrace", s, StackTraceOutput(Val(debugResponse)), << >>, FALSE, FALSE, NoResult)
    /\ UNCHANGED << cljSession, clientPathsAreURIs, routerVars, sessionVars, steppedFrom, factoryVars >>

threadsRequest(s) ==
    /\ s \in started
    /\ step' = Step("threads", s, ThreadsOutput, << >>, FALSE, FALSE, NoResult)
    /\ UNCHANGED << cljSession, clientPathsAreURIs, routerVars, sessionVars, steppedFrom, factoryVars >>

\* ------------------------------------------------------------------ router
\* A faulty variant: a new notification is merged into the recorded one,
\* which keeps its file.
handleDebugResponseMerging(n) ==
    /\ activeDebugSession \/ Len(startRequests) < MaxPending
    /\ debugResponse' = IF IsDefined(debugResponse)
                          THEN Some([n EXCEPT !.file = Val(debugResponse).file])
                          ELSE Some(n)
    /\ startRequests' = IF ~activeDebugSession
                          THEN Append(startRequests, CALVA_DEBUG_CONFIGURATION)
                          ELSE startRequests
    /\ steppedFrom' = Undefined
    /\ step' = Idle("handleDebugResponse", [response |-> n, returned |-> FALSE])
    /\ UNCHANGED << cljSession, clientPathsAreURIs, activeDebugSession, sessionVars, factoryVars >>

\* A faulty variant: a debug session is asked for on every notification.
handleDebugResponseAlwaysStarts(n) ==
    /\ Len(startRequests) < MaxPending
    /\ debugResponse' = Some(n)
    /\ startRequests' = Append(startRequests, CALVA_DEBUG_CONFIGURATION)
    /\ steppedFrom' = Undefined
    /\ step' = Idle("handleDebugResponse", [response |-> n, returned |-> FALSE])
    /\ UNCHANGED << cljSession, clientPathsAreURIs, activeDebugSession, sessionVars, factoryVars >>

\* handleDebugResponse: store the notification, then ask for a debug session
\* unless one is active.  MaxPending caps the unserved requests.
handleDebugResponse(n) ==
    /\ activeDebugSession \/ Len(startRequests) < MaxPending
    /\ debugResponse' = Some(n)
    /\ startRequests' = IF ~activeDebugSession
                          THEN Append(startRequests, CALVA_DEBUG_CONFIGURATION)
                          ELSE startRequests
    /\ steppedFrom' = Undefined
    /\ step' = Idle("handleDebugResponse", [response |-> n, returned |-> FALSE])
    /\ UNCHANGED << cljSession, clientPathsAreURIs, activeDebugSession, sessionVars, factoryVars >>

\* ----------------------------------------------------------------- factory
\* A faulty variant: a new listener is opened on every call.
createDebugAdapterDescriptorAlways ==
    /\ describeCalls < MaxCalls
    /\ describeCalls' = describeCalls + 1
    /\ \E p \in Ports :
         /\ server' = Some([port |-> p, listening |-> TRUE])
         /\ listenersCreated' = listenersCreated + 1
         /\ issued' = issued \cup {p}
         /\ step' = Idle("createDebugAdapterDescriptor", [port |-> p])
    /\ UNCHANGED << cljSession, clientPathsAreURIs, routerVars, sessionVars, steppedFrom, closings,
                    disposeCalls >>

\* Net.createServer(...).listen(0) binds an OS-assigned port at once;
\* server.address() is null once the server is closed, so `.port` throws.
createDebugAdapterDescriptor ==
    /\ describeCalls < MaxCalls
    /\ describeCalls' = describeCalls + 1
    /\ IF ~IsDefined(server)
         THEN \E p \in Ports :
                /\ server' = Some([port |-> p, listening |-> TRUE])
                /\ listenersCreated' = listenersCreated + 1
                /\ issued' = issued \cup {p}
                /\ step' = Idle("createDebugAdapterDescriptor", [port |-> p])
         ELSE /\ UNCHANGED << server, listenersCreated >>
              /\ IF Val(server).listening
                   THEN /\ issued' = issued \cup {Val(server).port}
                        /\ step' = Idle("createDebugAdapterDescriptor", [port |-> Val(server).port])
                   ELSE /\ UNCHANGED issued
                        /\ step' = Step("createDebugAdapterDescriptor", 0, << >>, << >>, FALSE, TRUE, NoResult)
    /\ UNCHANGED << cljSession, clientPathsAreURIs, routerVars, sessionVars, steppedFrom, closings,
                    disposeCalls >>

\* A faulty variant: close() is called without testing the field, which
\* throws when no server was created.
disposeUnguarded ==
    /\ disposeCalls < MaxCalls
    /\ disposeCalls' = disposeCalls + 1
    /\ IF IsDefined(server)
         THEN /\ server' = Some([Val(server) EXCEPT !.listening = FALSE])
              /\ closings' = IF Val(server).listening THEN closings + 1 ELSE closings
              /\ step' = Idle("dispose", NoResult)
         ELSE /\ UNCHANGED << server, closings >>
              /\ step' = Step("dispose", 0, << >>, << >>, FALSE, TRUE, NoResult)
    /\ UNCHANGED << cljSession, clientPathsAreURIs, routerVars, sessionVars, steppedFrom,
                    listenersCreated, issued, describeCalls >>

\* dispose calls server.close() whenever the field is set; the field is never
\* cleared.  close() stops a listening server and does nothing (and does not
\* throw) on one that is not listening.
dispose ==
    /\ disposeCalls < MaxCalls
    /\ disposeCalls' = disposeCalls + 1
    /\ IF IsDefined(server)
         THEN /\ server' = Some([Val(server) EXCEPT !.listening = FALSE])
              /\ closings' = IF Val(server).listening THEN closings + 1 ELSE closings
         ELSE UNCHANGED << server, closings >>
    /\ step' = Idle("dispose", NoResult)
    /\ UNCHANGED << cljSession, clientPathsAreURIs, routerVars, sessionVars, steppedFrom,
                    listenersCreated, issued, describeCalls >>

\* The connection callback given to Net.createServer: a new session per socket.
NextSessionId == CHOOSE s \in Sessions \ started : \A t \in Sessions \ started : s <= t
acceptConnection ==
    /\ IsDefined(server) /\ Val(server).listening
    /\ Sessions \ started # {}
    /\ started' = started \cup {NextSessionId}
    /\ step' = Step("acceptConnection", NextSessionId, << >>, << >>, FALSE, FALSE, NoResult)
    /\ UNCHANGED << cljSession, clientPathsAreURIs, routerVars, debuggerLinesStartAt1,
                    debuggerColumnsStartAt1, terminated, disconnected, steppedFrom, factoryVars >>

\* ------------------------------------------- CalvaDebugConfigurationProvider
\* A DebugConfiguration as the front-end passes it: each attribute is
\* undefined or has a value; noDebug stands for any further attribute.
Configurations ==
    [type    : {Undefined, Some(""), Some("clojure"), Some("node")},
     request : {Undefined, Some("launch")},
     name    : {Undefined, Some("My REPL")},
     noDebug : {Undefined, Some("true")}]

\* window.activeTextEditor: undefined or an editor on a document.
Editors == {Undefined, Some([languageId |-> "clojure"]), Some([languageId |-> "markdown"])}

\* JavaScript truthiness of a string attribute: defined and not empty.
Truthy(o) == IsDefined(o) /\ Val(o) # ""

\* { ...config, ...CALVA_DEBUG_CONFIGURATION }
WithDefaults(config) ==
    [config EXCEPT !.type = Some(CALVA_DEBUG_CONFIGURATION.type),
                   !.name = Some(CALVA_DEBUG_CONFIGURATION.name),
                   !.request = Some(CALVA_DEBUG_CONFIGURATION.request)]

\* A faulty variant: the defaults are filled in as soon as one of the three
\* attributes is missing.
resolveWhenAnyMissing(config, editor) ==
    IF ~Truthy(config.type) \/ ~Truthy(config.request) \/ ~Truthy(config.name)
      THEN IF IsDefined(editor) /\ Val(editor).languageId = "clojure"
             THEN WithDefaults(config)
             ELSE config
      ELSE config

resolveDebugConfiguration(config, editor) ==
    IF ~Truthy(config.type) /\ ~Truthy(config.request) /\ ~Truthy(config.name)
      THEN IF IsDefined(editor) /\ Val(editor).languageId = "clojure"
             THEN WithDefaults(config)
             ELSE config
      ELSE config

\* The front-end asks the provider to resolve a configuration.
resolveConfiguration(config, editor) ==
    /\ step' = Idle("resolveDebugConfiguration",
                    [config |-> config, editor |-> editor,
                     returned |-> resolveDebugConfiguration(config, editor)])
    /\ UNCHANGED << cljSession, clientPathsAreURIs, routerVars, sessionVars, steppedFrom, factoryVars >>

\* ------------------------------------------------------------- environment
\* The REPL connects or goes away: util.getSession('clj') changes.
replConnects ==
    /\ ~cljSession
    /\ cljSession' = TRUE
    /\ step' = Idle("environment", NoResult)
    /\ UNCHANGED << clientPathsAreURIs, routerVars, sessionVars, steppedFrom, factoryVars >>

replDisconnects ==
    /\ cljSession
    /\ cljSession' = FALSE
    /\ step' = Idle("environment", NoResult)
    /\ UNCHANGED << clientPathsAreURIs, routerVars, sessionVars, steppedFrom, factoryVars >>

\* The front-end serves a startDebugging request: a debug session is active.
debugSessionStarts ==
    /\ startRequests # << >>
    /\ startRequests' = Tail(startRequests)
    /\ activeDebugSession' = TRUE
    /\ step' = Idle("environment", NoResult)
    /\ UNCHANGED << cljSession, clientPathsAreURIs, debugResponse, sessionVars, steppedFrom, factoryVars >>

debugSessionEnds ==
    /\ activeDebugSession
    /\ activeDebugSession' = FALSE
    /\ step' = Idle("environment", NoResult)
    /\ UNCHANGED << cljSession, clientPathsAreURIs, debugResponse, startRequests, sessionVars,
                    steppedFrom, factoryVars >>

\* ---------------------------------------------------------- specifications
\* What state.deref().get('debug-response') yields before anything was
\* recorded: the store reports the entry as absent.
InitialDebugResponse == Undefined

\* After the module is loaded: CalvaDebugSession.run has started the stdio
\* session, nothing was recorded, the factory has no server.
Init ==
    /\ cljSession \in BOOLEAN
    /\ clientPathsAreURIs \in BOOLEAN
    /\ debugResponse = InitialDebugResponse
    /\ activeDebugSession = FALSE
    /\ startRequests = << >>
    /\ started = {StdioSession}
    /\ debuggerLinesStartAt1 = [s \in Sessions |-> FALSE]
    /\ debuggerColumnsStartAt1 = [s \in Sessions |-> FALSE]
    /\ terminated = [s \in Sessions |-> FALSE]
    /\ disconnected = [s \in Sessions |-> FALSE]
    /\ steppedFrom = Undefined
    /\ server = Undefined
    /\ listenersCreated = 0
    /\ closings = 0
    /\ issued = {}
    /\ describeCalls = 0
    /\ disposeCalls = 0
    /\ step = Idle("init", NoResult)

Initialize == \E s \in Sessions, args \in InitializeArgs : initializeRequest(s, args)
Attach == \E s \in Sessions : attachRequest(s)
Disconnect == \E s \in Sessions : disconnectRequest(s)
StepNext == \E s \in Sessions : nextRequest(s)
StackTrace == \E s \in Sessions : stackTraceRequest(s)
Threads == \E s \in Sessions : threadsRequest(s)
Record == \E n \in Notifications : handleDebugResponse(n)

\* The adapter: the requests of the running sessions, the router and the
\* environment (REPL and front-end); no listener is opened.
Next ==
    \/ Initialize
    \/ Attach
    \/ Disconnect
    \/ StepNext
    \/ StackTrace
    \/ Threads
    \/ Record
    \/ replConnects
    \/ replDisconnects
    \/ debugSessionStarts
    \/ debugSessionEnds

Spec == Init /\ [][Next]_vars

\* The factory and its listener, with the sessions it accepts being attached
\* to, asked for their threads and disconnected.
NextListener ==
    \/ createDebugAdapterDescriptor
    \/ dispose
    \/ acceptConnection
    \/ Attach
    \/ Threads
    \/ Disconnect

\* The factory is first used either right after the module is loaded, or
\* after a notification was recorded and the debug session it asked for has
\* become active.
InitListener ==
    /\ cljSession \in BOOLEAN
    /\ clientPathsAreURIs \in BOOLEAN
    /\ \/ debugResponse = InitialDebugResponse /\ activeDebugSession = FALSE
       \/ /\ debugResponse = Some(CHOOSE n \in Notifications : TRUE)
          /\ activeDebugSession = TRUE
    /\ startRequests = << >>
    /\ started = {StdioSession}
    /\ debuggerLinesStartAt1 = [s \in Sessions |-> FALSE]
    /\ debuggerColumnsStartAt1 = [s \in Sessions |-> FALSE]
    /\ terminated = [s \in Sessions |-> FALSE]
    /\ disconnected = [s \in Sessions |-> FALSE]
    /\ steppedFrom = Undefined
    /\ server = Undefined
    /\ listenersCreated = 0
    /\ closings = 0
    /\ issued = {}
    /\ describeCalls = 0
    /\ disposeCalls = 0
    /\ step = Idle("init", NoResult)

SpecListener == InitListener /\ [][NextListener]_vars

\* The configuration provider, beside a router that records notifications
\* and sessions that are attached to.
Resolve == \E config \in Configurations, editor \in Editors : resolveConfiguration(config, editor)

NextResolver ==
    \/ Resolve
    \/ Record
    \/ Attach

SpecResolver == Init /\ [][NextResolver]_vars

\* Two sessions at once, the stdio session and one that came in through the
\* listener the factory has opened; the debug session the front-end started
\* is active.
InitSessions ==
    /\ cljSession \in BOOLEAN
    /\ clientPathsAreURIs \in BOOLEAN
    /\ debugResponse = InitialDebugResponse
    /\ activeDebugSession = TRUE
    /\ startRequests = << >>
    /\ started = {StdioSession, StdioSession + 1}
    /\ debuggerLinesStartAt1 = [s \in Sessions |-> FALSE]
    /\ debuggerColumnsStartAt1 = [s \in Sessions |-> FALSE]
    /\ terminated = [s \in Sessions |-> FALSE]
    /\ disconnected = [s \in Sessions |-> FALSE]
    /\ steppedFrom = Undefined
    /\ \E p \in Ports : server = Some([port |-> p, listening |-> TRUE]) /\ issued = {p}
    /\ listenersCreated = 1
    /\ closings = 0
    /\ describeCalls = 1
    /\ disposeCalls = 0
    /\ step = Idle("init", NoResult)

NextSessions ==
    \/ Initialize
    \/ Attach
    \/ Disconnect
    \/ StepNext
    \/ StackTrace
    \/ Threads
    \/ Record

SpecSessions == InitSessions /\ [][NextSessions]_vars

\* ------------------------------------------------------------------ claims
\* The key of the recorded notification, or no key when nothing was recorded.
CurrentKey == IF IsDefined(debugResponse) THEN Some(Val(debugResponse).key) ELSE Undefined

\* C1: an initialize processed without a clj session emits exactly one
\* Terminated event (no response, no command), and from then on that session
\* makes no further transition: it handles no request and its state is frozen.
C1_InitializeWithoutReplEndsSession ==
    [][ /\ (step'.kind = "initialize" /\ ~cljSession) =>
              /\ step'.out = << [type |-> "event", event |-> "terminated", body |-> NoBody] >>
              /\ step'.sent = << >>
              /\ ~step'.fault
        /\ \A s \in Sessions :
              terminated[s] =>
                  /\ step'.session # s
                  /\ debuggerLinesStartAt1'[s] = debuggerLinesStartAt1[s]
                  /\ debuggerColumnsStartAt1'[s] = debuggerColumnsStartAt1[s]
                  /\ disconnected'[s] = disconnected[s] ]_vars

\* C2: every attach sends the attach response first and then exactly one
\* Stopped event with reason "breakpoint" for thread 1, and sends no command
\* to the clj session, whatever the session and the slot are.
C2_AttachRepliesThenStops ==
    step.kind = "attach" =>
        /\ ~step.fault
        /\ Len(step.out) = 2
        /\ step.out[1] = [type |-> "response", command |-> "attach", success |-> TRUE, body |-> NoBody]
        /\ step.out[2] = [type |-> "event", event |-> "stopped",
                          body |-> [reason |-> "breakpoint", threadId |-> 1]]
        /\ step.sent = << >>

\* C2 witness: an attach handled with no notification recorded, on a session
\* that had already ended with a Terminated event.
C2_Witness ==
    /\ step.kind = "attach"
    /\ ~IsDefined(debugResponse)
    /\ terminated[step.session]

\* C3: a stackTrace processed while nothing was ever recorded is answered
\* with an empty frame list and totalFrames = 0; it does not fail.
C3_StackTraceWithoutNotificationIsEmpty ==
    (step.kind = "stackTrace" /\ ~IsDefined(debugResponse)) =>
        /\ ~step.fault
        /\ step.out = << [type |-> "response", command |-> "stackTrace", success |-> TRUE,
                          body |-> [stackFrames |-> << >>, totalFrames |-> 0]] >>

\* C4: a stackTrace processed while the slot holds notification N returns
\* exactly one frame, totalFrames = 1; the frame has index 0, the placeholder
\* coordinate (18, 0) and a source whose path is N.file converted to the
\* front-end's convention, N being the notification in the slot right now.
C4_StackTraceDescribesCurrentNotification ==
    (step.kind = "stackTrace" /\ IsDefined(debugResponse)) =>
        LET n == Val(debugResponse)
            clientPath == IF clientPathsAreURIs THEN << "file:" >> \o n.file ELSE n.file
            body == step.out[1].body
        IN /\ ~step.fault
           /\ Len(step.out) = 1
           /\ step.out[1].type = "response"
           /\ step.out[1].command = "stackTrace"
           /\ step.out[1].success
           /\ body.totalFrames = 1
           /\ Len(body.stackFrames) = 1
           /\ body.stackFrames[1].id = 0
           /\ body.stackFrames[1].line = 18
           /\ body.stackFrames[1].column = 0
           /\ body.stackFrames[1].source.path = clientPath
           /\ body.stackFrames[1].source.name = n.file[Len(n.file)]
           /\ step.sent = << >>

\* C4 witness: a stackTrace answered for a front-end that addresses sources by
\* URI, so that the converted path differs from the recorded one.
C4_Witness ==
    /\ step.kind = "stackTrace"
    /\ IsDefined(debugResponse)
    /\ clientPathsAreURIs
    /\ ~step.fault

\* C5: next leaves the slot as it was, so a stackTrace that follows a next
\* with no notification recorded in between still describes the notification
\* that was current before the next.
C5_NextKeepsSlot ==
    IsDefined(steppedFrom) =>
        /\ debugResponse = Val(steppedFrom)
        /\ (step.kind = "stackTrace" /\ IsDefined(Val(steppedFrom))) =>
              /\ ~step.fault
              /\ step.out = StackTraceOutput(Val(Val(steppedFrom)))

\* C5 witness: a stackTrace answered after a next that found a notification,
\* nothing having been recorded since.
C5_Witness ==
    /\ step.kind = "stackTrace"
    /\ IsDefined(steppedFrom)
    /\ IsDefined(Val(steppedFrom))

\* C6: every disconnect is answered with success, in all four combinations
\* of clj session present/absent and notification recorded/never recorded;
\* ':quit' is sent exactly when a clj session exists, with the current key
\* when there is one and with no key otherwise.
C6_DisconnectAlwaysReplies ==
    step.kind = "disconnect" =>
        /\ ~step.fault
        /\ step.out = << [type |-> "response", command |-> "disconnect", success |-> TRUE, body |-> NoBody] >>
        /\ step.sent = IF cljSession THEN << [text |-> ":quit", key |-> CurrentKey] >> ELSE << >>

\* C7: a next with a clj session sends exactly one ':next' tagged with the
\* current key (no key when nothing was recorded) and replies success; with
\* no clj session it sends nothing and still replies success.
C7_NextSendsCurrentKey ==
    step.kind = "next" =>
        /\ ~step.fault
        /\ step.out = << [type |-> "response", command |-> "next", success |-> TRUE, body |-> NoBody] >>
        /\ step.sent = IF cljSession THEN << [text |-> ":next", key |-> CurrentKey] >> ELSE << >>

\* C8: threads always answers with exactly one thread, id 1 named
\* "thread 1", in every session state; it emits no event, sends no command
\* and changes neither the slot nor any session.
C8_ThreadsIsConstant ==
    [][ step'.kind = "threads" =>
          /\ ~step'.fault
          /\ step'.out = << [type |-> "response", command |-> "threads", success |-> TRUE,
                             body |-> [threads |-> << [id |-> 1, name |-> "thread 1"] >>]] >>
          /\ step'.sent = << >>
          /\ UNCHANGED << cljSession, routerVars, sessionVars, factoryVars >> ]_vars

\* C8 witness: threads answered by a session that had already disconnected,
\* with no clj session and nothing recorded.
C8_Witness ==
    /\ step.kind = "threads"
    /\ disconnected[step.session]
    /\ ~cljSession
    /\ ~IsDefined(debugResponse)

C10_ListenerClosedOnce ==
    /\ closings <= 1
    /\ ~IsDefined(server) => closings = 0
    /\ IsDefined(server) => (closings = 1) = ~Val(server).listening
    /\ (IsDefined(server) /\ step.kind = "createDebugAdapterDescriptor" /\ disposeCalls = 0) =>
          Val(server).listening
    /\ step.kind = "dispose" =>
          /\ ~step.fault
          /\ IsDefined(server) => (~Val(server).listening /\ closings = 1)

\* C10 witness: a repeated dispose (the third) has run on a factory whose
\* listener was created and is closed.
C10_Witness ==
    /\ step.kind = "dispose"
    /\ IsDefined(server)
    /\ closings = 1
    /\ disposeCalls = 3

C14_InitializeWithReplReplies ==
    step.kind = "initialize" =>
        /\ cljSession =>
              /\ step.out = << [type |-> "response", command |-> "initialize", success |-> TRUE,
                                body |-> [supportsBreakpointLocationsRequest |-> TRUE]] >>
              /\ step.sent = << >>
              /\ ~step.fault
        /\ (\E i \in 1..Len(step.out) : step.out[i].type = "event") = ~cljSession
        /\ (\E i \in 1..Len(step.out) :
               step.out[i] = [type |-> "event", event |-> "terminated", body |-> NoBody]) = ~cljSession

\* C14 witness: an initialize answered with the capabilities on a session
\* whose earlier initialize, made without a clj session, had ended in a
\* Terminated event.
C14_Witness ==
    /\ step.kind = "initialize"
    /\ cljSession
    /\ terminated[step.session]
    /\ Len(step.out) = 1

\* C15: once a session has processed a disconnect it processes no further
\* request: nothing is sent to the clj session and no response or event is
\* produced for that session afterwards.
C15_NothingAfterDisconnect ==
    [][ \A s \in Sessions :
          (disconnected[s] /\ step'.session = s) =>
              /\ step'.out = << >>
              /\ step'.sent = << >> ]_vars

\* C17: the only commands ever sent to the clj session are ':next', by
\* next, and ':quit', by disconnect; a request sends at most one command,
\* and initialize, attach, stackTrace and threads send none.
C17_OnlyNextAndQuit ==
    /\ Len(step.sent) <= 1
    /\ step.sent # << >> =>
          \/ step.kind = "next" /\ step.sent[1].text = ":next"
          \/ step.kind = "disconnect" /\ step.sent[1].text = ":quit"

\* C17 witness: a ':quit' has been sent by a disconnect.
C17_Witness ==
    /\ step.kind = "disconnect"
    /\ Len(step.sent) = 1
    /\ step.sent[1].text = ":quit"

\* C18: a start request that is still pending is never followed by a second
\* one: at most one debug-session start is outstanding at any time.
C18_AtMostOnePendingStart ==
    Len(startRequests) <= 1

\* C11: resolveDebugConfiguration returns its input unchanged whenever one
\* of type, request or name is present (has a non-empty value), or the
\* active editor is missing or not on a Clojure document; when all three are
\* absent and the document is Clojure it sets them to 'clojure',
\* 'Calva Debug' and 'attach', keeping the other attributes; it changes
\* neither the slot nor any session.
C11_ResolveFillsOnlyEmptyConfiguration ==
    [][ step'.kind = "resolveDebugConfiguration" =>
          LET c == step'.result.config
              e == step'.result.editor
              r == step'.result.returned
              present(o) == o # << >> /\ o[1] # ""
              anyPresent == present(c.type) \/ present(c.request) \/ present(c.name)
              clojure == e # << >> /\ e[1].languageId = "clojure"
          IN /\ (anyPresent \/ ~clojure) => r = c
             /\ (~anyPresent /\ clojure) =>
                   /\ r.type = << "clojure" >>
                   /\ r.name = << "Calva Debug" >>
                   /\ r.request = << "attach" >>
                   /\ r.noDebug = c.noDebug
             /\ UNCHANGED << cljSession, routerVars, sessionVars, steppedFrom, factoryVars >> ]_vars

\* C11 witness: the defaults were substituted into a configuration that had
\* only a further attribute, while a notification was in the slot.
C11_Witness ==
    /\ step.kind = "resolveDebugConfiguration"
    /\ step.result.returned # step.result.config
    /\ IsDefined(step.result.config.noDebug)
    /\ IsDefined(debugResponse)

\* C12: the slot always holds exactly the notification recorded last (it is
\* absent until the first one): a record replaces the whole value, and no
\* request handler of any session changes the slot.
C12_SlotHoldsLastRecorded ==
    [][ /\ step'.kind = "handleDebugResponse" => debugResponse' = << step'.result.response >>
        /\ step'.kind # "handleDebugResponse" => debugResponse' = debugResponse ]_vars

\* C12 witness: with a notification in the slot, the session that came in
\* through the listener has completed a disconnect after the stdio session
\* had completed one.
C12_Witness ==
    /\ IsDefined(debugResponse)
    /\ step.kind = "disconnect"
    /\ step.session # StdioSession
    /\ ~step.fault
    /\ disconnected[StdioSession]

\* C16: a disconnect handled by one session leaves every other session and
\* the listener as they were: the other sessions' state, the server, the
\* set of running sessions, the slot and the clj session are unchanged, and
\* what an operation sends goes to the session that handled it and to no
\* other.
Delivered(s) == IF step.session = s THEN step.out ELSE << >>
====
